---------------------------- MODULE Spec2Model ----------------------------
(***************************************************************************)
(* A model of music-analyzer.py (YouTube Music Wrapped): the history       *)
(* parser, the batched metadata fetcher, the enrich/filter step, the       *)
(* period aggregator and the control flow of main / get_full_dataset.      *)
(*                                                                         *)
(* Conventions.  An optional value is a sequence: None is << >> and a      *)
(* present value v is <<v>>.  Durations are kept in whole seconds, so a    *)
(* "minutes" figure m of the program is the number 60 * m here.  A string  *)
(* that the program searches or splits (a link target) is a sequence of    *)
(* tokens, each token one of the substrings the program looks for.         *)
(***************************************************************************)
EXTENDS Integers, Sequences, FiniteSets, TLC

VARIABLES
    pc,              \* control location of the operation under way
    video_ids_list,  \* fetch_video_metadata: list(video_ids)
    catalog,         \* the lookup service: what it holds for each id
    i,               \* fetch_video_metadata: the loop variable
    metadata,        \* fetch_video_metadata: the mapping being built
    requests,        \* the lookup requests issued so far, in order
    responses,       \* what each request came back with, in order
    reports,         \* progress reports emitted so far, in order
    html,            \* uploaded_file: the exported watch history
    history_df,      \* what parse_html_history returned
    messages,        \* st.error / st.warning texts shown so far, in order
    full_music_df,   \* what analyze_data returned first: the enriched data
    pre_filter_count,\* what analyze_data returned second
    granularity,     \* main: the st.radio choice
    period_label,    \* main: the label of the selected period
    display_df,      \* main: the subset handed to get_summary_for_period
    summary,         \* what get_summary_for_period returned
    run_diagnostics, \* main: the sidebar checkbox
    youtube_client,  \* what build_youtube_client returned
    ret,             \* what get_full_dataset returned
    outcomes,        \* the failed get_full_dataset calls so far, as [kind, value]
    runs             \* the script runs started so far

fetchVars == <<video_ids_list, catalog, i, metadata, requests, responses, reports>>
parseVars == <<html, history_df>>

analyzeVars == <<full_music_df, pre_filter_count>>
queryVars == <<granularity, period_label, display_df, summary>>
mainVars == <<run_diagnostics, youtube_client, ret, outcomes, runs>>

vars == <<pc, messages, parseVars, fetchVars, analyzeVars, queryVars, mainVars>>

\* The values of the variables an operation does not touch.
IdleFetch ==
    /\ video_ids_list = << >>
    /\ catalog = << >>
    /\ i = 0
    /\ metadata = << >>
    /\ requests = << >>
    /\ responses = << >>
    /\ reports = << >>

IdleParse ==
    /\ html = << >>
    /\ history_df = << >>

IdleAnalyze ==
    /\ full_music_df = << >>
    /\ pre_filter_count = 0

IdleQuery ==
    /\ granularity = "Overall"
    /\ period_label = [kind |-> "Overall", period |-> 0]
    /\ display_df = [columns |-> {}, rows |-> << >>]
    /\ summary = << >>

IdleMain ==
    /\ run_diagnostics = FALSE
    /\ youtube_client = << >>
    /\ ret = << >>
    /\ outcomes = {}
    /\ runs = 0

None == << >>
Some(v) == <<v>>

Min(a, b) == IF a <= b THEN a ELSE b
Max(a, b) == IF a >= b THEN a ELSE b

Range(s) == {s[k] : k \in DOMAIN s}

(***************************************************************************)
(* Program constants.                                                      *)
(***************************************************************************)
MINIMUM_SONG_DURATION_SECONDS == 60
MAXIMUM_SONG_DURATION_MINUTES == 7
BatchSize == 50
progress_start == 10
progress_end == 90

(***************************************************************************)
(* Bounds of the model.                                                    *)
(***************************************************************************)
MaxFullBatches == 2   \* id lists hold up to this many full batches ...
MaxRemainder == 1     \* ... give or take this many ids
MaxStride == 2        \* every MaxStride-th item of the catalogue at most is odd

(***************************************************************************)
(* The lookup service.  An item of a response is a nested mapping; a key   *)
(* the service left out is absent from the mapping's DOMAIN.  A duration   *)
(* text is [text, M, S]: "PT" with M minutes and S seconds stands for the  *)
(* ISO-8601 text PT<M>M<S>S, any other text is not a duration.             *)
(***************************************************************************)
ItemKinds == {"ok", "absent", "no_id", "no_contentDetails", "no_duration",
              "bad_duration", "no_snippet", "no_title", "no_channelTitle"}

DurationTexts == << [text |-> "PT", M |-> 3, S |-> 20],
                    [text |-> "PT", M |-> 0, S |-> 30],
                    [text |-> "PT", M |-> 10, S |-> 0],
                    [text |-> "PT", M |-> 1, S |-> 0],
                    [text |-> "PT", M |-> 0, S |-> 59] >>

BadDurationText == [text |-> "three minutes", M |-> 0, S |-> 0]

\* A title or a channel name is the rank of the string among the names in
\* lexicographic order, which is the order pandas sorts group keys in.
TitleNames == <<1, 2, 3>>
ArtistNames == <<1, 2>>

\* What the service holds for one video: which keys its item carries and
\* the values under them.
Video(kind, n) ==
    [kind |-> kind,
     duration |-> IF kind = "bad_duration" THEN BadDurationText
                  ELSE DurationTexts[(n % Len(DurationTexts)) + 1],
     title |-> TitleNames[(n % Len(TitleNames)) + 1],
     channelTitle |-> ArtistNames[(n % Len(ArtistNames)) + 1]]

\* The item the service returns for id `id`, as the nested mapping the
\* client library decodes.
MakeItem(id, v) ==
    LET cd == IF v.kind = "no_duration" THEN [etag |-> "e"]
              ELSE [etag |-> "e", duration |-> v.duration]
        sn == IF v.kind = "no_title"
                THEN [channelTitle |-> v.channelTitle]
              ELSE IF v.kind = "no_channelTitle"
                THEN [title |-> v.title]
              ELSE [title |-> v.title, channelTitle |-> v.channelTitle]
    IN  IF v.kind = "no_id" THEN [contentDetails |-> cd, snippet |-> sn]
        ELSE IF v.kind = "no_contentDetails" THEN [id |-> id, snippet |-> sn]
        ELSE IF v.kind = "no_snippet" THEN [id |-> id, contentDetails |-> cd]
        ELSE [id |-> id, contentDetails |-> cd, snippet |-> sn]

\* response.get("items", []) of a successful request for `batch`.
ResponseItems(batch, cat) ==
    LET present == SelectSeq(batch, LAMBDA id : cat[id].kind # "absent")
    IN  [k \in DOMAIN present |-> MakeItem(present[k], cat[present[k]])]

\* isodate.parse_duration(text).total_seconds(): the seconds, or the
\* exception raised.
parse_duration(d) ==
    IF d.text = "PT" THEN [exc |-> "none", sec |-> 60 * d.M + d.S]
    ELSE [exc |-> "ISO8601Error", sec |-> 0]

(***************************************************************************)
(* fetch_video_metadata                                                    *)
(***************************************************************************)
total_videos == Len(video_ids_list)

\* Mutant: a slice one id too long, video_ids_list[i:i+51].
BatchAtOneMore(ids, off) == SubSeq(ids, off + 1, Min(off + BatchSize + 1, Len(ids)))

\* video_ids_list[i:i+50]
BatchAt(ids, off) == SubSeq(ids, off + 1, Min(off + BatchSize, Len(ids)))

\* The body of the inner try (line 83) for one item: the exception it
\* raises, or the entry it stores.
ItemEntry(item) ==
    IF "contentDetails" \notin DOMAIN item THEN [exc |-> "KeyError"]
    ELSE IF "duration" \notin DOMAIN item.contentDetails THEN [exc |-> "KeyError"]
    ELSE IF parse_duration(item.contentDetails.duration).exc # "none"
        THEN [exc |-> "ISO8601Error"]
    ELSE IF "snippet" \notin DOMAIN item THEN [exc |-> "KeyError"]
    ELSE IF "title" \notin DOMAIN item.snippet THEN [exc |-> "KeyError"]
    ELSE IF "channelTitle" \notin DOMAIN item.snippet THEN [exc |-> "KeyError"]
    ELSE IF "id" \notin DOMAIN item THEN [exc |-> "KeyError"]
    ELSE [exc |-> "none",
          id |-> item.id,
          value |-> [duration_sec |-> parse_duration(item.contentDetails.duration).sec,
                     title |-> item.snippet.title,
                     artist |-> item.snippet.channelTitle]]

\* The for loop over the items of one response (lines 81-84): every item
\* whose entry raises nothing is stored under its id, a later item with the
\* same id overwriting an earlier one.
StoreItems(meta, items) ==
    LET stored == {k \in DOMAIN items : ItemEntry(items[k]).exc = "none"}
        \* every other exception ItemEntry raises is caught by line 84
        keys == {ItemEntry(items[k]).id : k \in stored}
        last(key) == CHOOSE k \in stored :
                        /\ ItemEntry(items[k]).id = key
                        /\ \A j \in stored : ItemEntry(items[j]).id = key => j <= k
    IN  [key \in DOMAIN meta \cup keys |->
            IF key \in keys THEN ItemEntry(items[last(key)]).value ELSE meta[key]]

\* Lines 85-89: the progress report after the batch at offset `off`.
ProgressReport(off, total) ==
    LET processed_count == Min(off + BatchSize, total)
    IN  [processed |-> processed_count,
         total |-> total,
         bar |-> IF total > 0
                   THEN progress_start
                        + (processed_count * (progress_end - progress_start)) \div total
                 ELSE progress_start]

\* Mutant: the request's failure is not caught.
BatchCaughtNever(exc) == FALSE

\* except HttpError: continue
BatchCaught(exc) == exc = "HttpError"

\* One iteration of the for loop of line 75 whose request fails.
FetchBatchFails ==
    /\ pc = "fetch"
    /\ i < total_videos
    /\ \E exc \in {"HttpError"} :
         /\ requests' = Append(requests, BatchAt(video_ids_list, i))
         /\ responses' = Append(responses, [exc |-> exc, items |-> << >>])
         /\ IF BatchCaught(exc)
              THEN /\ i' = i + BatchSize
                   /\ pc' = pc
              ELSE /\ i' = i
                   /\ pc' = "raised"
    /\ UNCHANGED <<video_ids_list, catalog, metadata, reports>>
    /\ UNCHANGED <<parseVars, messages, analyzeVars, queryVars, mainVars>>

\* One iteration of the for loop of line 75 whose request succeeds.
FetchBatchOk ==
    /\ pc = "fetch"
    /\ i < total_videos
    /\ LET batch == BatchAt(video_ids_list, i)
           items == ResponseItems(batch, catalog)
       IN  /\ requests' = Append(requests, batch)
           /\ responses' = Append(responses, [exc |-> "none", items |-> items])
           /\ metadata' = StoreItems(metadata, items)
           /\ reports' = Append(reports, ProgressReport(i, total_videos))
    /\ i' = i + BatchSize
    /\ UNCHANGED <<pc, video_ids_list, catalog>>
    /\ UNCHANGED <<parseVars, messages, analyzeVars, queryVars, mainVars>>

\* The loop is exhausted: return metadata (line 90).
FetchReturn ==
    /\ pc = "fetch"
    /\ i >= total_videos
    /\ pc' = "fetched"
    /\ UNCHANGED <<fetchVars, parseVars, messages, analyzeVars, queryVars, mainVars>>

(***************************************************************************)
(* SpecFetch: fetch_video_metadata called on an id list, against a lookup  *)
(* service whose catalogue is fixed for the call and whose requests each   *)
(* succeed or fail.                                                        *)
(***************************************************************************)
Totals ==
    {n \in {q * BatchSize + r : q \in 0..MaxFullBatches,
                                r \in (0 - MaxRemainder)..MaxRemainder} : n >= 0}

\* A catalogue over ids 1..n: every stride-th video is of kind `kind`.
PatternCatalog(n, stride, kind) ==
    [id \in 1..n |-> Video(IF id % stride = 0 THEN kind ELSE "ok", id)]

\* The id lists of length n: list(video_ids) keeps whatever it is given, so
\* a list may name an id once (1, 2, 3, ...), twice in a row at its head
\* (1, 1, 2, ...) or again at its end (1, 2, ..., 1).
IdLists(n) ==
    {[k \in 1..n |-> k],
     [k \in 1..n |-> Max(1, k - 1)],
     [k \in 1..n |-> ((k - 1) % Max(1, n - 1)) + 1]}

InitFetch ==
    /\ pc = "fetch"
    /\ \E n \in Totals :
         /\ video_ids_list \in IdLists(n)
         /\ \E stride \in 1..MaxStride, kind \in ItemKinds :
              catalog = PatternCatalog(n, stride, kind)
    /\ i = 0
    /\ metadata = << >>
    /\ requests = << >>
    /\ responses = << >>
    /\ reports = << >>
    /\ IdleParse
    /\ messages = << >>
    /\ IdleAnalyze
    /\ IdleQuery
    /\ IdleMain

NextFetch == FetchBatchFails \/ FetchBatchOk \/ FetchReturn

SpecFetch == InitFetch /\ [][NextFetch]_vars

(***************************************************************************)
(* Claims about fetch_video_metadata, checked under SpecFetch.             *)
(***************************************************************************)
NumBatches(total) == (total + BatchSize - 1) \div BatchSize

Returned == pc = "fetched"

\* C2: a progress report is emitted after each batch, whether it succeeded
\* or failed, with processed = min(batchEnd, total); the reported counts
\* never decrease; and when the call has returned on a non-empty id list
\* the last report has processed = total and bar value 90.
C2_ReportAfterEveryBatch ==
    /\ Len(reports) = Len(requests)
    /\ \A k \in DOMAIN reports :
         reports[k].processed = Min(k * BatchSize, total_videos)
    /\ \A k \in DOMAIN reports : \A j \in DOMAIN reports :
         j <= k => reports[j].processed <= reports[k].processed
    /\ (Returned /\ total_videos > 0) =>
         /\ reports # << >>
         /\ reports[Len(reports)].processed = total_videos
         /\ reports[Len(reports)].bar = progress_end

\* An item of a response that carries every field the program reads and a
\* duration text that is an ISO-8601 duration.
WellFormedItem(item) ==
    /\ {"id", "contentDetails", "snippet"} \subseteq DOMAIN item
    /\ "duration" \in DOMAIN item.contentDetails
    /\ item.contentDetails.duration.text = "PT"
    /\ {"title", "channelTitle"} \subseteq DOMAIN item.snippet

\* The well-formed items the successful requests have come back with.
WellFormedReturned ==
    UNION {{responses[r].items[k] :
               k \in {j \in DOMAIN responses[r].items :
                        WellFormedItem(responses[r].items[j])}} :
           r \in {q \in DOMAIN responses : responses[q].exc = "none"}}

Requested ==
    [p \in 1..Min(i, total_videos) |->
        requests[((p - 1) \div BatchSize) + 1][((p - 1) % BatchSize) + 1]]

\* What a lookup of `id` that succeeds leaves in the mapping, if anything.
Looked(id) == ItemEntry(MakeItem(id, catalog[id]))

Storable(id) == catalog[id].kind # "absent" /\ Looked(id).exc = "none"

MaxHrefLen == 4    \* tokens in a link target
MaxEntries == 1    \* entries in a document

Tok == {"music.youtube.com", "/", "watch?v=", "&", "a", "b"}

\* tok in s
Contains(s, tok) == \E k \in DOMAIN s : s[k] = tok

\* s.split(tok)[-1]
AfterLast(s, tok) ==
    IF ~Contains(s, tok) THEN s
    ELSE LET last == CHOOSE k \in DOMAIN s :
                        s[k] = tok /\ \A j \in DOMAIN s : s[j] = tok => j <= k
         IN  SubSeq(s, last + 1, Len(s))

\* s.split(tok)[0]
BeforeFirst(s, tok) ==
    IF ~Contains(s, tok) THEN s
    ELSE LET first == CHOOSE k \in DOMAIN s :
                         s[k] = tok /\ \A j \in DOMAIN s : s[j] = tok => k <= j
         IN  SubSeq(s, 1, first - 1)

MonthAbbr == <<"Jan", "Feb", "Mar", "Apr", "May", "Jun",
               "Jul", "Aug", "Sep", "Oct", "Nov", "Dec">>

IsLeap(y) == (y % 4 = 0 /\ y % 100 # 0) \/ y % 400 = 0

DaysInMonth(y, m) ==
    IF m = 2 THEN (IF IsLeap(y) THEN 29 ELSE 28)
    ELSE IF m \in {4, 6, 9, 11} THEN 30 ELSE 31

\* match.group(0).replace("Sept", "Sep")
FixSept(t) == IF t.mon = "Sept" THEN [t EXCEPT !.mon = "Sep"] ELSE t

\* datetime.strptime(text, '%d %b %Y, %H:%M:%S'): the timestamp, or None
\* where it raises ValueError.
strptime(t) ==
    IF /\ \E m \in DOMAIN MonthAbbr : MonthAbbr[m] = t.mon
       /\ t.year >= 1
       /\ t.hour <= 23
       /\ t.day >= 1
       /\ t.day <= DaysInMonth(t.year,
                               CHOOSE m \in DOMAIN MonthAbbr : MonthAbbr[m] = t.mon)
      THEN Some([year |-> t.year,
                 month |-> CHOOSE m \in DOMAIN MonthAbbr : MonthAbbr[m] = t.mon,
                 day |-> t.day,
                 hour |-> t.hour])
    ELSE None

\* Line 47: is the entry a music play?
IsMusicEntry(href, header_text) ==
    Contains(href, "music.youtube.com") \/ Contains(header_text, "YouTube Music")

\* Line 48
VideoIdOf(href) == BeforeFirst(AfterLast(href, "watch?v="), "&")

\* The body of the for loop of line 42 for one entry: the records it
\* appends.
ParseEntry(entry) ==
    IF entry.link = None \/ ~Contains(entry.link[1], "watch?v=") THEN << >>
    ELSE LET href == entry.link[1]
             header_text == IF entry.header = None THEN << >> ELSE entry.header[1]
         IN  IF ~IsMusicEntry(href, header_text) THEN << >>
             ELSE IF entry.text = None THEN << >>
             ELSE IF strptime(FixSept(entry.text[1])) = None THEN << >>
             ELSE << [videoId |-> VideoIdOf(href),
                      timestamp |-> strptime(FixSept(entry.text[1]))[1]] >>

\* The for loop of line 42.
RECURSIVE ParseEntries(_, _)
ParseEntries(entries, k) ==
    IF k > Len(entries) THEN << >>
    ELSE ParseEntry(entries[k]) \o ParseEntries(entries, k + 1)

\* parse_html_history(uploaded_file): [ret, msg].  A data frame is
\* [columns, rows].
parse_html_history(file) ==
    IF ~file.readable
      THEN [ret |-> None,
            msg |-> <<"An unexpected error occurred during HTML parsing.">>]
    ELSE LET recs == ParseEntries(file.entries, 1)
         IN  IF recs = << >>
               THEN [ret |-> None,
                     msg |-> <<"Could not parse any valid music entries from the HTML file.">>]
             ELSE [ret |-> Some([columns |-> {"videoId", "timestamp"}, rows |-> recs]),
                   msg |-> << >>]

ParseHtml ==
    /\ pc = "parse"
    /\ history_df' = parse_html_history(html[1]).ret
    /\ messages' = messages \o parse_html_history(html[1]).msg
    /\ pc' = "parsed"
    /\ UNCHANGED <<html, fetchVars, analyzeVars, queryVars, mainVars>>

(***************************************************************************)
(* SpecParse: parse_html_history called on a document.                     *)
(***************************************************************************)
RECURSIVE SeqsUpTo(_, _)
SeqsUpTo(S, n) ==
    IF n = 0 THEN {<< >>}
    ELSE LET shorter == SeqsUpTo(S, n - 1)
         IN  shorter \cup {Append(s, x) : s \in shorter, x \in S}

Hrefs == SeqsUpTo(Tok, MaxHrefLen)

HeaderTexts == {<<"YouTube">>, <<"YouTube Music">>}

StampTexts ==
    {[day |-> 30, mon |-> "Sept", year |-> 2024, hour |-> 8],
     [day |-> 30, mon |-> "Sep", year |-> 2024, hour |-> 8],
     [day |-> 31, mon |-> "Sep", year |-> 2024, hour |-> 23],
     [day |-> 1, mon |-> "Sepx", year |-> 2024, hour |-> 0]}

Opt(S) == {None} \cup {Some(x) : x \in S}

EntriesOver(hrefs) ==
    [link : Opt(hrefs), header : Opt(HeaderTexts), text : Opt(StampTexts)]

InitParse ==
    /\ pc = "parse"
    /\ \/ html = Some([readable |-> FALSE, entries |-> << >>])
       \/ \E es \in SeqsUpTo(EntriesOver(Hrefs), MaxEntries) :
            html = Some([readable |-> TRUE, entries |-> es])
    /\ history_df = None
    /\ messages = << >>
    /\ IdleFetch
    /\ IdleAnalyze
    /\ IdleQuery
    /\ IdleMain

NextParse == ParseHtml

SpecParse == InitParse /\ [][NextParse]_vars

(***************************************************************************)
(* Claims about parse_html_history, checked under SpecParse.               *)
(***************************************************************************)
Parsed == pc = "parsed"

\* The rows parse_html_history returned (none when it returned None).
HistoryRows == IF history_df = None THEN << >> ELSE history_df[1].rows

\* The entries of the document that a PlayEvent was produced for, in
\* document order: row k of the result comes from entry k of these.
ProducesEvent(entry) == ParseEntry(entry) # << >>
ProducingEntries == SelectSeq(html[1].entries, ProducesEvent)

\* The host component of a link target.
HostOf(href) == BeforeFirst(href, "/")

\* s.split(tok, 1)[1]: what follows the first tok.
AfterFirst(s, tok) ==
    LET first == CHOOSE k \in DOMAIN s :
                    s[k] = tok /\ \A j \in DOMAIN s : s[j] = tok => k <= j
    IN  SubSeq(s, first + 1, Len(s))

\* C4: a PlayEvent is produced for an entry only if the host component of
\* its link target equals music.youtube.com or its header text contains
\* the label YouTube Music.
C4_OnlyMusicEntriesProduceEvents ==
    Parsed =>
      /\ Len(HistoryRows) = Len(ProducingEntries)
      /\ \A k \in DOMAIN ProducingEntries :
           LET e == ProducingEntries[k]
           IN  \/ HostOf(e.link[1]) = <<"music.youtube.com">>
               \/ (e.header # None /\ Contains(e.header[1], "YouTube Music"))

\* C5: every PlayEvent has a non-empty itemId, the part of the link target
\* between the watch?v= marker and the next & (or the end of the target).
C5_ItemIdNonEmptyAndBetweenMarkers ==
    Parsed =>
      /\ Len(HistoryRows) = Len(ProducingEntries)
      /\ \A k \in DOMAIN HistoryRows :
           /\ HistoryRows[k].videoId # << >>
           /\ HistoryRows[k].videoId
                = BeforeFirst(AfterFirst(ProducingEntries[k].link[1], "watch?v="), "&")

(***************************************************************************)
(* analyze_data                                                            *)
(*                                                                         *)
(* A cell of a joined column is None where pandas holds NaN and <<v>>      *)
(* where it holds v.  duration_min and capped_duration_min are kept in     *)
(* seconds (sixtieths of a minute).  A month or week period is its         *)
(* ordinal, so that the period before p is p - 1.                          *)
(***************************************************************************)
LeapsThrough(y) == (y \div 4) - (y \div 100) + (y \div 400)

\* Days from 1970-01-01 to the first day of year y.
DaysBeforeYear(y) == 365 * (y - 1970) + LeapsThrough(y - 1) - LeapsThrough(1969)

RECURSIVE DaysBeforeMonth(_, _)
DaysBeforeMonth(y, m) ==
    IF m = 1 THEN 0 ELSE DaysBeforeMonth(y, m - 1) + DaysInMonth(y, m - 1)

\* Days from 1970-01-01, a Thursday, to the date of timestamp t.
DayOrdinal(t) == DaysBeforeYear(t.year) + DaysBeforeMonth(t.year, t.month) + t.day - 1

\* timestamp.dt.to_period('M')
MonthPeriod(t) == (t.year - 1970) * 12 + t.month - 1

\* timestamp.dt.to_period('W'): weeks run Monday to Sunday.
WeekPeriod(t) == (DayOrdinal(t) + 3) \div 7

\* history_df.join(meta_df, on="videoId") for one row.
JoinRow(r, meta) ==
    IF r.videoId \in DOMAIN meta
      THEN [videoId |-> r.videoId, timestamp |-> r.timestamp,
            duration_sec |-> Some(meta[r.videoId].duration_sec),
            title |-> Some(meta[r.videoId].title),
            artist |-> Some(meta[r.videoId].artist)]
    ELSE [videoId |-> r.videoId, timestamp |-> r.timestamp,
          duration_sec |-> None, title |-> None, artist |-> None]

\* Mutant: the duration filter keeps every row.
KeepsAnyDuration(r) == TRUE

\* Line 106: music_df['duration_sec'] >= MINIMUM_SONG_DURATION_SECONDS
LongEnough(r) == r.duration_sec[1] >= MINIMUM_SONG_DURATION_SECONDS

\* Lines 109-112 for one row.
Enrich(r) ==
    [videoId |-> r.videoId, timestamp |-> r.timestamp,
     duration_sec |-> r.duration_sec, title |-> r.title, artist |-> r.artist,
     duration_min |-> r.duration_sec[1],
     capped_duration_min |-> Min(r.duration_sec[1], 60 * MAXIMUM_SONG_DURATION_MINUTES),
     month |-> MonthPeriod(r.timestamp),
     week |-> WeekPeriod(r.timestamp)]

EnrichedColumns ==
    {"videoId", "timestamp", "duration_sec", "title", "artist",
     "duration_min", "capped_duration_min", "month", "week"}

\* analyze_data(history_df, metadata): [df, count, msg].
analyze_data(hist, meta) ==
    IF hist = None \/ DOMAIN meta = {}
      THEN [df |-> None, count |-> 0, msg |-> << >>]
    ELSE LET joined == [k \in DOMAIN hist[1].rows |-> JoinRow(hist[1].rows[k], meta)]
             music_df == SelectSeq(joined, LAMBDA r : r.duration_sec # None)
             filtered == SelectSeq(music_df, LongEnough)
         IN  IF filtered = << >>
               THEN [df |-> None, count |-> Len(music_df),
                     msg |-> <<"No music entries longer than 60 seconds were found.">>]
             ELSE [df |-> Some([columns |-> EnrichedColumns,
                                rows |-> [k \in DOMAIN filtered |-> Enrich(filtered[k])]]),
                   count |-> Len(music_df),
                   msg |-> << >>]

AnalyzeData ==
    /\ pc = "analyze"
    /\ full_music_df' = analyze_data(history_df, metadata).df
    /\ pre_filter_count' = analyze_data(history_df, metadata).count
    /\ messages' = messages \o analyze_data(history_df, metadata).msg
    /\ pc' = "analyzed"
    /\ UNCHANGED <<parseVars, fetchVars, queryVars, mainVars>>

(***************************************************************************)
(* SpecAnalyze: analyze_data called on a history and a metadata mapping.   *)
(***************************************************************************)
MaxHistory == 3    \* rows of a history

SampleIds == {<<"a">>, <<"b">>}

SampleStamps ==
    {[year |-> 2024, month |-> 1, day |-> 31, hour |-> 23],
     [year |-> 2024, month |-> 2, day |-> 1, hour |-> 0]}

SampleSeconds == {30, 59, 60, 61, 420, 600}

\* The mappings fetch_video_metadata can return for a set of ids: an entry
\* holds a duration, a title and an artist.
MetadataOver(ids) ==
    UNION {[D -> [duration_sec : SampleSeconds, title : {1, 2}, artist : {1}]] :
           D \in SUBSET ids}

HistoriesOver(ids, stamps, n) ==
    {[columns |-> {"videoId", "timestamp"}, rows |-> rs] :
        rs \in SeqsUpTo([videoId : ids, timestamp : stamps], n) \ {<< >>}}

InitAnalyze ==
    /\ pc = "analyze"
    /\ html = << >>
    /\ history_df \in Opt(HistoriesOver(SampleIds, SampleStamps, MaxHistory))
    /\ metadata \in MetadataOver(SampleIds)
    /\ video_ids_list = << >>
    /\ catalog = << >>
    /\ i = 0
    /\ requests = << >>
    /\ responses = << >>
    /\ reports = << >>
    /\ messages = << >>
    /\ IdleAnalyze
    /\ IdleQuery
    /\ IdleMain

NextAnalyze == AnalyzeData

SpecAnalyze == InitAnalyze /\ [][NextAnalyze]_vars

(***************************************************************************)
(* Claims about analyze_data, checked under SpecAnalyze.                   *)
(***************************************************************************)
Analyzed == pc = "analyzed"

EnrichedRows == IF full_music_df = None THEN << >> ELSE full_music_df[1].rows

\* The plays of the history that have metadata with a duration of at least
\* one minute, in order.
QualifyingPlays ==
    IF history_df = None THEN << >>
    ELSE SelectSeq(history_df[1].rows,
                   LAMBDA r : /\ r.videoId \in DOMAIN metadata
                              /\ metadata[r.videoId].duration_sec >= 60)

\* C6: every enriched row has a metadata match for its id, a non-null
\* duration, title and artist (those of the match) and a duration of at
\* least 60 seconds; the rows are the qualifying plays, once per play.
C6_EnrichedRowsAreTheQualifyingPlays ==
    Analyzed =>
      /\ \A k \in DOMAIN EnrichedRows :
           LET r == EnrichedRows[k]
           IN  /\ r.videoId \in DOMAIN metadata
               /\ r.duration_sec # None /\ r.title # None /\ r.artist # None
               /\ r.duration_sec[1] = metadata[r.videoId].duration_sec
               /\ r.title[1] = metadata[r.videoId].title
               /\ r.artist[1] = metadata[r.videoId].artist
               /\ r.duration_sec[1] >= 60
      /\ Len(EnrichedRows) = Len(QualifyingPlays)
      /\ \A k \in DOMAIN EnrichedRows :
           /\ EnrichedRows[k].videoId = QualifyingPlays[k].videoId
           /\ EnrichedRows[k].timestamp = QualifyingPlays[k].timestamp

\* analyze_data has run on a history in which one play qualifies twice, one
\* play is shorter than a minute and one has no metadata.
C6_Witness ==
    /\ Analyzed
    /\ Len(EnrichedRows) = 2
    /\ EnrichedRows[1].videoId = EnrichedRows[2].videoId
    /\ Len(history_df[1].rows) > 2
    /\ \E k \in DOMAIN history_df[1].rows :
         history_df[1].rows[k].videoId \notin DOMAIN metadata

(***************************************************************************)
(* get_summary_for_period                                                  *)
(***************************************************************************)
TopN == 10

RECURSIVE SumCapped(_, _)
\* rows['capped_duration_min'].sum(), from row k on.
SumCapped(rows, k) ==
    IF k > Len(rows) THEN 0
    ELSE rows[k].capped_duration_min + SumCapped(rows, k + 1)

\* df[df[column] == value]
RowsWhere(rows, column, value) == SelectSeq(rows, LAMBDA r : r[column] = value)

\* df.groupby(column): the group keys (a null key makes no group) and the
\* rows of one group.
GroupKeys(rows, column) ==
    {rows[k][column][1] : k \in {j \in DOMAIN rows : rows[j][column] # None}}

GroupRows(rows, column, key) == RowsWhere(rows, column, Some(key))

\* Mutant: sort_values without ascending=False.
RECURSIVE SortAscending(_, _)
SortAscending(groups, rev) ==
    IF groups = {} THEN << >>
    ELSE LET best == CHOOSE x \in groups : \A y \in groups :
                        \/ y.score > x.score
                        \/ y.score = x.score
                           /\ (IF rev THEN y.key <= x.key ELSE x.key <= y.key)
         IN  <<best>> \o SortAscending(groups \ {best}, rev)

\* The records of `groups`, each [key, score, ...], from the highest score
\* down.  Records with equal scores come in ascending key order (the order
\* groupby leaves them in), or in descending key order when `rev`: an
\* unstable sort may leave either.
RECURSIVE SortDescending(_, _)
SortDescending(groups, rev) ==
    IF groups = {} THEN << >>
    ELSE LET best == CHOOSE x \in groups : \A y \in groups :
                        \/ y.score < x.score
                        \/ y.score = x.score
                           /\ (IF rev THEN y.key <= x.key ELSE x.key <= y.key)
         IN  <<best>> \o SortDescending(groups \ {best}, rev)

\* s.head(n)
FirstN(s, n) == SubSeq(s, 1, Min(n, Len(s)))

\* Line 136-137 for one title: its row of song_agg.
SongStats(rows, t) ==
    LET group == GroupRows(rows, "title", t)
        total == SumCapped(group, 1)
    IN  [key |-> t, total_minutes |-> total, play_count |-> Len(group),
         score |-> Len(group) * total]

\* Lines 136-138: song_agg, sorted.
SongAgg(rows, rev) ==
    LET order == SortDescending({SongStats(rows, t) : t \in GroupKeys(rows, "title")}, rev)
    IN  [k \in DOMAIN order |->
            [title |-> order[k].key,
             total_minutes |-> order[k].total_minutes,
             play_count |-> order[k].play_count,
             listen_score |-> order[k].score]]

\* df.groupby("artist")["capped_duration_min"].sum().nlargest(n); nlargest
\* keeps the first of equal values.
ArtistsLargest(rows, n) ==
    LET sums == {[key |-> a, score |-> SumCapped(GroupRows(rows, "artist", a), 1)] :
                    a \in GroupKeys(rows, "artist")}
        order == FirstN(SortDescending(sums, FALSE), n)
    IN  [k \in DOMAIN order |->
            [artist |-> order[k].key, capped_duration_min |-> order[k].score]]

\* Line 147: by_day, keyed by the date's day ordinal.
ByDay(rows) ==
    [d \in {DayOrdinal(rows[k].timestamp) : k \in DOMAIN rows} |->
        SumCapped(SelectSeq(rows, LAMBDA r : DayOrdinal(r.timestamp) = d), 1)]

\* Mutant: the bins start at 0, which leaves hour 0 in no bucket.
BinsFromZero == <<0, 5, 11, 17, 23>>

\* Line 151: the bin edges and labels of pd.cut.
BucketBins == <<-1, 5, 11, 17, 23>>

BucketLabels == <<"Night (0-6)", "Morning (6-12)", "Afternoon (12-18)", "Evening (18-24)">>

\* pd.cut(hour, bins, labels): the label of the bin (lo, hi] that holds the
\* hour, None (NaN) when no bin does.
Cut(hour) ==
    LET hit == {k \in DOMAIN BucketLabels :
                  BucketBins[k] < hour /\ hour <= BucketBins[k + 1]}
    IN  IF hit = {} THEN None ELSE Some(BucketLabels[CHOOSE k \in hit : TRUE])

\* Line 150: df["hour"] = df["timestamp"].dt.hour, on the frame itself.
WithHour(df) ==
    [columns |-> df.columns \cup {"hour"},
     rows |-> [k \in DOMAIN df.rows |->
                 [c \in DOMAIN df.rows[k] \cup {"hour"} |->
                    IF c = "hour" THEN df.rows[k].timestamp.hour ELSE df.rows[k][c]]]]

\* Line 151: groupby on the categorical keeps every label, with sum 0 for a
\* label no row falls under.
TimeBuckets(rows) ==
    [label \in Range(BucketLabels) |->
        SumCapped(SelectSeq(rows, LAMBDA r : Cut(r.hour) = Some(label)), 1)]

MonthNames == <<"January", "February", "March", "April", "May", "June", "July",
                "August", "September", "October", "November", "December">>

\* Mutant: compares with the latest earlier period that has data.
PreviousWithData(full_rows, column, current) ==
    LET earlier == {full_rows[k][column] : k \in DOMAIN full_rows} \cap
                   {p \in 0..current : p < current}
    IN  IF earlier = {} THEN current - 1
        ELSE CHOOSE p \in earlier : \A q \in earlier : q <= p

\* Lines 125 and 128: previous_period = current_period - 1
PreviousPeriod(full_rows, column, current) == current - 1

\* Python's f"{growth:+.1f}" of (current - previous) / previous * 100, as
\* [sign, tenths]: the value rounded to a tenth, half to even.
FormatGrowth(current_total, previous_total) ==
    LET num == 1000 * (IF current_total >= previous_total
                         THEN current_total - previous_total
                       ELSE previous_total - current_total)
        q == num \div previous_total
        r == num % previous_total
        up == 2 * r > previous_total \/ (2 * r = previous_total /\ q % 2 = 1)
    IN  [sign |-> IF current_total >= previous_total THEN "+" ELSE "-",
         tenths |-> IF up THEN q + 1 ELSE q]

\* Lines 120-135: growth_text.
GrowthText(rows, full_rows, g) ==
    IF g = "Overall" THEN None
    ELSE LET column == IF g = "By Month" THEN "month" ELSE "week"
             current_total == SumCapped(rows, 1)
             current_period == rows[1][column]
             previous_period == PreviousPeriod(full_rows, column, current_period)
             previous_df == RowsWhere(full_rows, column, previous_period)
             period_name == IF g = "By Month"
                              THEN MonthNames[(previous_period % 12) + 1]
                            ELSE "previous week"
             previous_total == SumCapped(previous_df, 1)
         IN  IF previous_total > 0
               THEN Some([kind |-> "growth",
                          growth |-> FormatGrowth(current_total, previous_total),
                          vs |-> period_name])
             ELSE Some([kind |-> "First period of data"])

\* get_summary_for_period(df, period_label, full_df, granularity): the
\* summary returned (None for an empty df).  `rev` is how the sort of line
\* 138 leaves equal scores.
get_summary_for_period(df, label, full_df, g, rev) ==
    IF df.rows = << >> THEN None
    ELSE LET rows == df.rows
             song_agg == SongAgg(rows, rev)
             fav_artist == ArtistsLargest(rows, 1)
         IN  Some([total_minutes |-> SumCapped(rows, 1),
                   growth_text |-> GrowthText(rows, full_df.rows, g),
                   fav_song |-> IF song_agg # << >> THEN Some(song_agg[1].title) ELSE None,
                   fav_song_duration |->
                       IF song_agg # << >> THEN song_agg[1].total_minutes ELSE 0,
                   top_songs |-> FirstN(song_agg, TopN),
                   fav_artist |-> IF fav_artist # << >> THEN Some(fav_artist[1].artist)
                                  ELSE None,
                   fav_artist_duration |->
                       IF fav_artist # << >> THEN fav_artist[1].capped_duration_min ELSE 0,
                   top_artists |-> ArtistsLargest(rows, TopN),
                   by_day |-> ByDay(rows),
                   total_period_minutes |-> SumCapped(rows, 1),
                   chart_period_label |-> label,
                   time_buckets |-> TimeBuckets(WithHour(df).rows)])

(***************************************************************************)
(* main, lines 293-314: the period selection and the call of               *)
(* get_summary_for_period.                                                 *)
(***************************************************************************)
MinOf(S) == CHOOSE x \in S : \A y \in S : x <= y
MaxOf(S) == CHOOSE x \in S : \A y \in S : y <= x

\* pd.period_range(start=min_date, end=max_date, freq=...): the periods from
\* that of the earliest timestamp to that of the latest.
PeriodRange(rows, column) ==
    MinOf({rows[k][column] : k \in DOMAIN rows}) ..
    MaxOf({rows[k][column] : k \in DOMAIN rows})

\* Lines 293-310.
SelectPeriod ==
    /\ pc = "select"
    /\ \/ /\ granularity' = "Overall"
          /\ display_df' = full_music_df[1]
          /\ period_label' = [kind |-> "Overall", period |-> 0]
       \/ \E p \in PeriodRange(full_music_df[1].rows, "month") :
            /\ granularity' = "By Month"
            /\ period_label' = [kind |-> "month", period |-> p]
            /\ display_df' = [columns |-> full_music_df[1].columns,
                              rows |-> RowsWhere(full_music_df[1].rows, "month", p)]
       \/ \E p \in PeriodRange(full_music_df[1].rows, "week") :
            /\ granularity' = "By Week"
            /\ period_label' = [kind |-> "week", period |-> p]
            /\ display_df' = [columns |-> full_music_df[1].columns,
                              rows |-> RowsWhere(full_music_df[1].rows, "week", p)]
    /\ pc' = "summarize"
    /\ UNCHANGED <<summary, messages, parseVars, fetchVars, analyzeVars, mainVars>>

\* Lines 312-314: the call.  Line 150 adds the hour column to df itself,
\* which for Overall is the object full_music_df names (line 298).
GetSummary ==
    /\ pc = "summarize"
    /\ \E rev \in BOOLEAN :
         summary' = get_summary_for_period(display_df, period_label,
                                           full_music_df[1], granularity, rev)
    /\ IF display_df.rows = << >>
         THEN /\ UNCHANGED <<display_df, full_music_df>>
              /\ messages' = Append(messages,
                                    "No listening data found for the selected period.")
              /\ pc' = "stopped"
       ELSE /\ display_df' = WithHour(display_df)
            /\ full_music_df' = IF granularity = "Overall"
                                  THEN Some(WithHour(display_df))
                                ELSE full_music_df
            /\ messages' = messages
            /\ pc' = "render"
    /\ UNCHANGED <<granularity, period_label, pre_filter_count>>
    /\ UNCHANGED <<parseVars, fetchVars, mainVars>>

(***************************************************************************)
(* SpecSummary: one run of main from the selection on, over an enriched    *)
(* data set that analyze_data built.                                       *)
(***************************************************************************)
MaxPlays == 2      \* plays of the sample videos in a history
MaxFiller == 11    \* further videos, each played once

PlayedIds == {<<"a">>, <<"b">>}

PlayStamps ==
    {[year |-> 2023, month |-> 12, day |-> 31, hour |-> 0],
     [year |-> 2024, month |-> 1, day |-> 1, hour |-> 5],
     [year |-> 2024, month |-> 1, day |-> 7, hour |-> 6],
     [year |-> 2024, month |-> 1, day |-> 8, hour |-> 11],
     [year |-> 2024, month |-> 1, day |-> 22, hour |-> 12],
     [year |-> 2024, month |-> 1, day |-> 31, hour |-> 17],
     [year |-> 2024, month |-> 2, day |-> 1, hour |-> 18],
     [year |-> 2024, month |-> 2, day |-> 1, hour |-> 23]}

FillerStamp == [year |-> 2024, month |-> 1, day |-> 8, hour |-> 11]

FillerSeconds == <<90, 200, 600>>

FillerId(k) == <<"f", k, k>>

\* The metadata of the sample videos and of n further ones.
PlayedMetadata(n) ==
    [id \in PlayedIds \cup {FillerId(k) : k \in 1..n} |->
        IF id = <<"a">> THEN [duration_sec |-> 200, title |-> 1, artist |-> 1]
        ELSE IF id = <<"b">> THEN [duration_sec |-> 600, title |-> 2, artist |-> 1]
        ELSE [duration_sec |-> FillerSeconds[(id[2] % Len(FillerSeconds)) + 1],
              title |-> 2 + id[2],
              artist |-> 2 + id[2]]]

FillerRows(n) == [k \in 1..n |-> [videoId |-> FillerId(k), timestamp |-> FillerStamp]]

InitSummary ==
    /\ pc = "select"
    /\ html = << >>
    /\ \E n \in {0, MaxFiller - 1, MaxFiller} :
       \E rs \in SeqsUpTo([videoId : PlayedIds, timestamp : PlayStamps],
                          IF n = 0 THEN MaxPlays ELSE 1) :
         /\ rs \o FillerRows(n) # << >>
         /\ history_df = Some([columns |-> {"videoId", "timestamp"},
                               rows |-> rs \o FillerRows(n)])
         /\ metadata = PlayedMetadata(n)
    /\ full_music_df = analyze_data(history_df, metadata).df
    /\ pre_filter_count = analyze_data(history_df, metadata).count
    /\ video_ids_list = << >>
    /\ catalog = << >>
    /\ i = 0
    /\ requests = << >>
    /\ responses = << >>
    /\ reports = << >>
    /\ messages = << >>
    /\ IdleQuery
    /\ IdleMain

NextSummary == SelectPeriod \/ GetSummary

SpecSummary == InitSummary /\ [][NextSummary]_vars

(***************************************************************************)
(* Claims about get_summary_for_period, checked under SpecSummary.         *)
(***************************************************************************)
Summarized == pc = "render"

\* The sum of the capped durations of the rows numbered in idx.
RECURSIVE TotalOver(_, _)
TotalOver(rows, idx) ==
    IF idx = {} THEN 0
    ELSE LET k == CHOOSE j \in idx : TRUE
         IN  rows[k].capped_duration_min + TotalOver(rows, idx \ {k})

\* C1: get_summary_for_period leaves df and full_df as they were: the call
\* changes neither the columns nor the rows of either.
C1_CallLeavesInputsUnchanged ==
    [][pc = "summarize" => (display_df' = display_df /\ full_music_df' = full_music_df)]_vars

\* C7: no growth figure for Overall; for By Month / By Week the previous
\* total is the sum of capped minutes over full_df in the period just
\* before the subset's, the result is the "First period of data" sentinel
\* exactly when that total is 0, and otherwise the signed percentage
\* (current - previous) / previous * 100 to one decimal, followed by the
\* preceding period's label.
C7_GrowthAgainstPrecedingPeriod ==
    Summarized =>
      LET s == summary[1]
          rows == display_df.rows
          full == full_music_df[1].rows
          column == IF granularity = "By Month" THEN "month" ELSE "week"
          key == rows[1][column]
          current == TotalOver(rows, DOMAIN rows)
          previous == TotalOver(full, {k \in DOMAIN full : full[k][column] = key - 1})
          diff == IF current >= previous THEN current - previous ELSE previous - current
          off == s.growth_text[1].growth.tenths * previous - 1000 * diff
      IN  IF granularity = "Overall" THEN s.growth_text = None
          ELSE /\ \A k \in DOMAIN rows : rows[k][column] = key
               /\ s.growth_text # None
               /\ (s.growth_text[1].kind = "First period of data") <=> (previous = 0)
               /\ previous > 0 =>
                    /\ s.growth_text[1].kind = "growth"
                    /\ s.growth_text[1].growth.sign = (IF current >= previous THEN "+" ELSE "-")
                    /\ 2 * off <= previous /\ 0 - previous <= 2 * off
                    /\ s.growth_text[1].vs =
                         (IF granularity = "By Month"
                            THEN MonthNames[((key - 1) % 12) + 1]
                          ELSE "previous week")

\* A month whose preceding month has no plays although an earlier month
\* has: the sentinel is reported.
C7_Witness ==
    /\ Summarized
    /\ granularity = "By Month"
    /\ summary[1].growth_text = Some([kind |-> "First period of data"])
    /\ \E k \in DOMAIN full_music_df[1].rows :
         full_music_df[1].rows[k].month < display_df.rows[1].month - 1

\* A week that grew against the week before it.
C7_WitnessGrowth ==
    /\ Summarized
    /\ granularity = "By Week"
    /\ summary[1].growth_text # None
    /\ summary[1].growth_text[1].kind = "growth"
    /\ summary[1].growth_text[1].growth.tenths > 0

HourRanges ==
    [label \in Range(BucketLabels) |->
        IF label = "Night (0-6)" THEN 0..5
        ELSE IF label = "Morning (6-12)" THEN 6..11
        ELSE IF label = "Afternoon (12-18)" THEN 12..17
        ELSE 18..23]

\* C8: the four buckets Night 0-5, Morning 6-11, Afternoon 12-17 and
\* Evening 18-23 are all present, each holds the capped minutes of the
\* events of its hours, every event falls in exactly one of them, and the
\* four sums add up to total_minutes.
C8_TimeBucketsPartitionTheTotal ==
    Summarized =>
      LET s == summary[1]
          rows == display_df.rows
      IN  /\ DOMAIN s.time_buckets = Range(BucketLabels)
          /\ \A label \in Range(BucketLabels) :
               s.time_buckets[label] =
                 TotalOver(rows, {k \in DOMAIN rows :
                                    rows[k].timestamp.hour \in HourRanges[label]})
          /\ \A k \in DOMAIN rows :
               Cardinality({label \in Range(BucketLabels) :
                              rows[k].timestamp.hour \in HourRanges[label]}) = 1
          /\ s.time_buckets["Night (0-6)"] + s.time_buckets["Morning (6-12)"]
               + s.time_buckets["Afternoon (12-18)"] + s.time_buckets["Evening (18-24)"]
             = s.total_minutes
          /\ s.total_minutes = TotalOver(rows, DOMAIN rows)

\* A summary of plays at hours 0 and 23 and none in the morning.
C8_Witness ==
    /\ Summarized
    /\ \E k \in DOMAIN display_df.rows : display_df.rows[k].timestamp.hour = 0
    /\ \E k \in DOMAIN display_df.rows : display_df.rows[k].timestamp.hour = 23
    /\ summary[1].time_buckets["Morning (6-12)"] = 0
    /\ summary[1].time_buckets["Night (0-6)"] > 0

TitlesOf(rows) == {rows[k].title[1] : k \in DOMAIN rows}
ArtistsOf(rows) == {rows[k].artist[1] : k \in DOMAIN rows}

PlaysOfTitle(rows, t) == {k \in DOMAIN rows : rows[k].title = Some(t)}
PlaysOfArtist(rows, a) == {k \in DOMAIN rows : rows[k].artist = Some(a)}

ListenScore(rows, t) ==
    Cardinality(PlaysOfTitle(rows, t)) * TotalOver(rows, PlaysOfTitle(rows, t))

ArtistMinutes(rows, a) == TotalOver(rows, PlaysOfArtist(rows, a))

\* C9: top_songs has at most 10 rows, one per title, sorted descending by
\* listenScore = playCount x capped minutes, and no title left out scores
\* strictly higher than one kept; top_artists likewise by summed capped
\* minutes; fav_song and fav_artist head those rankings with the maximum
\* score.
C9_RankingsSortedAndTruncated ==
    Summarized =>
      LET s == summary[1]
          rows == display_df.rows
          songs == s.top_songs
          artists == s.top_artists
      IN  /\ Len(songs) = Min(TopN, Cardinality(TitlesOf(rows)))
          /\ \A k \in DOMAIN songs :
               /\ songs[k].title \in TitlesOf(rows)
               /\ songs[k].play_count = Cardinality(PlaysOfTitle(rows, songs[k].title))
               /\ songs[k].total_minutes
                    = TotalOver(rows, PlaysOfTitle(rows, songs[k].title))
               /\ songs[k].listen_score = ListenScore(rows, songs[k].title)
               /\ \A j \in DOMAIN songs :
                    /\ j < k => songs[j].listen_score >= songs[k].listen_score
                    /\ j # k => songs[j].title # songs[k].title
               /\ \A t \in TitlesOf(rows) \ {songs[j].title : j \in DOMAIN songs} :
                    ListenScore(rows, t) <= songs[k].listen_score
          /\ Len(artists) = Min(TopN, Cardinality(ArtistsOf(rows)))
          /\ \A k \in DOMAIN artists :
               /\ artists[k].artist \in ArtistsOf(rows)
               /\ artists[k].capped_duration_min = ArtistMinutes(rows, artists[k].artist)
               /\ \A j \in DOMAIN artists :
                    /\ j < k => artists[j].capped_duration_min
                                  >= artists[k].capped_duration_min
                    /\ j # k => artists[j].artist # artists[k].artist
               /\ \A a \in ArtistsOf(rows) \ {artists[j].artist : j \in DOMAIN artists} :
                    ArtistMinutes(rows, a) <= artists[k].capped_duration_min
          /\ s.fav_song = Some(songs[1].title)
          /\ s.fav_song_duration = songs[1].total_minutes
          /\ \A t \in TitlesOf(rows) : ListenScore(rows, t) <= songs[1].listen_score
          /\ s.fav_artist = Some(artists[1].artist)
          /\ s.fav_artist_duration = artists[1].capped_duration_min
          /\ \A a \in ArtistsOf(rows) : ArtistMinutes(rows, a) <= artists[1].capped_duration_min

\* A summary over more than ten titles and artists: both rankings are cut
\* to ten, and a title that is left out scores less than the favourite.
C9_Witness ==
    /\ Summarized
    /\ Cardinality(TitlesOf(display_df.rows)) > TopN
    /\ Cardinality(ArtistsOf(display_df.rows)) > TopN
    /\ Len(summary[1].top_songs) = TopN
    /\ Len(summary[1].top_artists) = TopN
    /\ \E t \in TitlesOf(display_df.rows) :
         ListenScore(display_df.rows, t) < summary[1].top_songs[1].listen_score

(***************************************************************************)
(* main and get_full_dataset.  Streamlit runs the script from the top on   *)
(* every interaction; a run ends at st.stop() ("stopped") or at the end of *)
(* main ("done").                                                          *)
(***************************************************************************)
MaxRuns == 2        \* script runs in a behaviour
MaxDocEntries == 2  \* entries of an uploaded document

\* h_df["videoId"].unique(): the ids in order of first appearance.
RECURSIVE Unique(_, _)
Unique(rows, k) ==
    IF k > Len(rows) THEN << >>
    ELSE LET rest == Unique(rows, k + 1)
         IN  <<rows[k].videoId>>
             \o SelectSeq(rest, LAMBDA id : id # rows[k].videoId)

\* A return of get_full_dataset with no data set, at the stage `kind`
\* (lines 256, 258, 263, 265), followed by lines 288-289 of main.
ReturnNothing(kind, count) ==
    /\ ret' = <<None, count>>
    /\ outcomes' = outcomes \cup {[kind |-> kind, value |-> <<None, count>>]}
    /\ messages' = Append(messages, "Could not generate analytics from your data.")
    /\ pc' = "stopped"

\* st.stop() in the diagnostic path.
Stop ==
    /\ pc' = "stopped"
    /\ UNCHANGED <<ret, outcomes, messages>>

\* Line 256, or line 271.
AfterParse ==
    /\ pc = "parsed"
    /\ IF history_df = None
         THEN IF run_diagnostics THEN Stop
              ELSE ReturnNothing(IF html[1].readable THEN "zero qualifying entries"
                                 ELSE "markup unparseable", 0)
       ELSE /\ pc' = "build"
            /\ UNCHANGED <<ret, outcomes, messages>>
    /\ UNCHANGED <<parseVars, fetchVars, analyzeVars, queryVars>>
    /\ UNCHANGED <<run_diagnostics, youtube_client, runs>>

\* build_youtube_client and lines 258-261, or lines 273-276: the client is
\* built or not; with a client, fetch_video_metadata is entered.
BuildClient ==
    /\ pc = "build"
    /\ \E built \in BOOLEAN :
         IF built
           THEN /\ youtube_client' = Some("youtube")
                /\ video_ids_list' = Unique(history_df[1].rows, 1)
                /\ i' = 0
                /\ metadata' = << >>
                /\ pc' = "fetch"
                /\ UNCHANGED <<ret, outcomes, messages>>
         ELSE /\ youtube_client' = None
              /\ UNCHANGED <<video_ids_list, i, metadata>>
              /\ IF run_diagnostics
                   THEN /\ pc' = "stopped"
                        /\ messages' = Append(messages, "Failed to build YouTube client")
                        /\ UNCHANGED <<ret, outcomes>>
                 ELSE /\ ret' = <<None, 0>>
                      /\ outcomes' = outcomes \cup
                            {[kind |-> "client failure", value |-> <<None, 0>>]}
                      /\ messages' = messages \o
                            <<"Failed to build YouTube client",
                              "Could not generate analytics from your data.">>
                      /\ pc' = "stopped"
    /\ UNCHANGED <<catalog, requests, responses, reports>>
    /\ UNCHANGED <<parseVars, analyzeVars, queryVars, run_diagnostics, runs>>

\* Mutant: lines 263 and 277 without their test of the mapping.
AfterFetchUnchecked ==
    /\ pc = "fetched"
    /\ pc' = "analyze"
    /\ UNCHANGED <<ret, outcomes, messages>>
    /\ UNCHANGED <<parseVars, fetchVars, analyzeVars, queryVars>>
    /\ UNCHANGED <<run_diagnostics, youtube_client, runs>>

\* Line 263, or line 277.
AfterFetch ==
    /\ pc = "fetched"
    /\ IF DOMAIN metadata = {}
         THEN IF run_diagnostics THEN Stop ELSE ReturnNothing("no usable metadata", 0)
       ELSE /\ pc' = "analyze"
            /\ UNCHANGED <<ret, outcomes, messages>>
    /\ UNCHANGED <<parseVars, fetchVars, analyzeVars, queryVars>>
    /\ UNCHANGED <<run_diagnostics, youtube_client, runs>>

\* Lines 265 and 288-290, or lines 280-285 (render_diagnostics).
AfterAnalyze ==
    /\ pc = "analyzed"
    /\ IF run_diagnostics
         THEN /\ pc' = "done"
              /\ UNCHANGED <<ret, outcomes, messages>>
       ELSE IF full_music_df = None
         THEN ReturnNothing("empty post-filter dataset", pre_filter_count)
       ELSE /\ ret' = <<full_music_df, pre_filter_count>>
            /\ pc' = "select"
            /\ messages' = Append(messages, "Analysis complete!")
            /\ UNCHANGED outcomes
    /\ UNCHANGED <<parseVars, fetchVars, analyzeVars, queryVars>>
    /\ UNCHANGED <<run_diagnostics, youtube_client, runs>>

\* Lines 315-321: render_kpis, render_charts, render_top_lists,
\* render_full_data_tables.
Render ==
    /\ pc = "render"
    /\ pc' = "done"
    /\ UNCHANGED <<messages, parseVars, fetchVars, analyzeVars, queryVars, mainVars>>

\* The documents and lookup services of the runs.
MusicLinkA == <<"music.youtube.com", "/", "watch?v=", "a">>
MusicLinkB == <<"music.youtube.com", "/", "watch?v=", "b", "&", "a">>
OtherLink == <<"a", "/", "watch?v=", "b">>

FirstStamp == [day |-> 1, mon |-> "Sept", year |-> 2024, hour |-> 8]
SecondStamp == [day |-> 9, mon |-> "Sep", year |-> 2024, hour |-> 20]

UploadedEntries ==
    {[link |-> Some(MusicLinkA), header |-> Some(<<"YouTube Music">>), text |-> Some(FirstStamp)],
     [link |-> Some(MusicLinkB), header |-> None, text |-> Some(SecondStamp)],
     [link |-> Some(OtherLink), header |-> Some(<<"YouTube">>), text |-> Some(FirstStamp)],
     [link |-> Some(MusicLinkA), header |-> Some(<<"YouTube Music">>), text |-> None]}

Uploads ==
    {None, Some([readable |-> FALSE, entries |-> << >>])} \cup
    {Some([readable |-> TRUE, entries |-> es]) :
        es \in SeqsUpTo(UploadedEntries, MaxDocEntries)}

UploadedIds == {<<"a">>, <<"b">>}

Services ==
    [UploadedIds -> {Video("ok", 0), Video("ok", 1), Video("absent", 0)}]

\* Lines 248-251: render_sidebar hands over the inputs of the run, which
\* may lack the file.
Start ==
    /\ pc = "start"
    /\ html' \in Uploads
    /\ run_diagnostics' \in BOOLEAN
    /\ catalog' \in Services
    /\ IF html' = None
         THEN /\ pc' = "stopped"
              /\ messages' = Append(messages, "Please provide your API key and upload your watch-history.html to begin.")
       ELSE /\ pc' = "parse"
            /\ messages' = messages
    /\ UNCHANGED <<history_df, video_ids_list, i, metadata, requests, responses, reports>>
    /\ UNCHANGED <<analyzeVars, queryVars, youtube_client, ret, outcomes, runs>>

\* The state a run of the script starts in.
RunStart ==
    /\ pc = "start"
    /\ messages = << >>
    /\ IdleParse
    /\ IdleFetch
    /\ IdleAnalyze
    /\ IdleQuery
    /\ run_diagnostics = FALSE
    /\ youtube_client = None
    /\ ret = << >>

\* The user changes an input and Streamlit runs the script again.
Rerun ==
    /\ pc \in {"stopped", "done"}
    /\ runs < MaxRuns
    /\ runs' = runs + 1
    /\ pc' = "start"
    /\ messages' = << >>
    /\ html' = None
    /\ history_df' = None
    /\ video_ids_list' = << >>
    /\ catalog' = << >>
    /\ i' = 0
    /\ metadata' = << >>
    /\ requests' = << >>
    /\ responses' = << >>
    /\ reports' = << >>
    /\ full_music_df' = None
    /\ pre_filter_count' = 0
    /\ granularity' = "Overall"
    /\ period_label' = [kind |-> "Overall", period |-> 0]
    /\ display_df' = [columns |-> {}, rows |-> << >>]
    /\ summary' = << >>
    /\ run_diagnostics' = FALSE
    /\ youtube_client' = None
    /\ ret' = << >>
    /\ UNCHANGED outcomes

Init ==
    /\ RunStart
    /\ outcomes = {}
    /\ runs = 1

Next ==
    \/ Start
    \/ ParseHtml
    \/ AfterParse
    \/ BuildClient
    \/ FetchBatchFails
    \/ FetchBatchOk
    \/ FetchReturn
    \/ AfterFetch
    \/ AnalyzeData
    \/ AfterAnalyze
    \/ SelectPeriod
    \/ GetSummary
    \/ Render
    \/ Rerun

Spec == Init /\ [][Next]_vars

(***************************************************************************)
(* Claims about the pipeline, checked under Spec.                          *)
(***************************************************************************)
\* C10: the value get_full_dataset returns tells the caller which stage
\* failed: two failed calls that failed differently (markup unparseable,
\* zero qualifying entries, client failure, no usable metadata, empty
\* post-filter dataset) returned different values.
C10_ReturnValueTellsTheFailedStage ==
    \A o1 \in outcomes : \A o2 \in outcomes :
        o1.value = o2.value => o1.kind = o2.kind

\* The positions of a run in program order; a run ends at one of RunEnds.
RunOrder ==
    <<"start", "parse", "parsed", "build", "fetch", "fetched", "analyze",
      "analyzed", "select", "summarize", "render">>

RunEnds == {"stopped", "done", "raised"}

Rank(p) ==
    IF p \in RunEnds THEN Len(RunOrder) + 1
    ELSE CHOOSE k \in DOMAIN RunOrder : RunOrder[k] = p

\* C11: in one run the stages run strictly in the order parse, client
\* build, fetch, analyze, aggregate, none skipped and none entered twice
\* (the batches of one fetch aside); a lookup request is issued only when
\* parsing produced at least one event and the client was built;
\* analyze_data runs only on a non-empty mapping; the summary is computed
\* and rendered only when the enriched dataset is present; and a stage
\* that fails ends the run, after which only a new run can follow.
C11_StagesInOrderAndStopOnFailure ==
    [][IF pc' = "start"
         THEN pc \in {"stopped", "done"} /\ runs' = runs + 1
       ELSE /\ runs' = runs
            /\ Rank(pc') >= Rank(pc)
            /\ pc' \notin RunEnds => Rank(pc') <= Rank(pc) + 1
            /\ Rank(pc') = Rank(pc) => pc = "fetch"
            /\ requests' # requests =>
                  /\ pc = "fetch"
                  /\ history_df # None
                  /\ Len(history_df[1].rows) >= 1
                  /\ youtube_client # None
            /\ pc = "analyze" => DOMAIN metadata # {}
            /\ pc \in {"select", "summarize", "render"} => full_music_df # None
            /\ summary' # summary => pc = "summarize"
            /\ (pc = "parsed" /\ history_df = None) => pc' = "stopped"
            /\ (pc = "build" /\ youtube_client' = None) => pc' = "stopped"
            /\ (pc = "fetched" /\ DOMAIN metadata = {}) => pc' = "stopped"
            /\ (pc = "analyzed" /\ full_music_df = None) => pc' \in {"stopped", "done"}
      ]_vars

\* A run whose lookups gave no usable metadata stopped before analyze_data.
C11_Witness ==
    /\ pc = "stopped"
    /\ Len(requests) >= 1
    /\ DOMAIN metadata = {}
    /\ full_music_df = None
    /\ summary = None

=============================================================================
